---- MODULE Spec2Model ----
(***************************************************************************)
(* mcstructure-to-gltf: the conversion run of src/src/index.ts.            *)
(*                                                                         *)
(* Strings are modelled as sequences of tokens ("minecraft:", "block/",    *)
(* "stone", "#", ...), so that String.replace and String.slice are         *)
(* computed on them. JavaScript's undefined string and "" are both the     *)
(* empty sequence: the code only tests them for truthiness.                *)
(***************************************************************************)
EXTENDS Integers, Sequences, FiniteSets, TLC

\* ------------------------------------------------------------- bounds
MaxDim == 2
MaxLen == 2
NCallers == 2
MaxSteps == 4

\* ------------------------------------------------------------- strings
NS == "minecraft:"
AirName == <<NS, "air">>

\* String.prototype.replace("minecraft:", ""): the FIRST occurrence is removed.
FirstNs(s) == CHOOSE k \in 1..Len(s) : s[k] = NS /\ \A j \in 1..(k - 1) : s[j] # NS

Replace(s) ==
    IF \E k \in 1..Len(s) : s[k] = NS
    THEN SubSeq(s, 1, FirstNs(s) - 1) \o SubSeq(s, FirstNs(s) + 1, Len(s))
    ELSE s

\* The first character of a token that is longer than one character, removed.
ChopToken(tok) ==
    CASE tok = "block/" -> "lock/"
      [] tok = NS -> "inecraft:"
      [] tok = "all" -> "ll"
      [] OTHER -> "_chopped"

\* String.prototype.slice(1): the code uses it to remove a leading '#'.
Slice1(s) ==
    IF s = <<>> THEN <<>>
    ELSE IF s[1] = "#" THEN Tail(s)
    ELSE <<ChopToken(s[1])>> \o Tail(s)

\* ------------------------------------------------------------- materials
NoTex == <<>>

Faces == <<"east", "west", "up", "down", "north", "south">>

\* faceMap of addMaterials, as the 1-based slot of the materials array.
FaceSlot(face) == CHOOSE k \in 1..6 : Faces[k] = face

\* Map.get / Map.set of textureMap; a key set to undefined reads as undefined.
MapGet(m, ref) == IF Len(ref) = 1 /\ ref[1] \in DOMAIN m THEN m[ref[1]] ELSE NoTex

MapSet(m, key, v) == [x \in DOMAIN m \cup {key} |-> IF x = key THEN v ELSE m[x]]

EmptyMap == [x \in {} |-> NoTex]

\* A faulty variant: the fallback is built as the slots of a model without textures.
FallbackSlotsUntinted == [k \in 1..6 |-> [map |-> NoTex, color |-> "default"]]

\* Array(6).fill(new MeshStandardMaterial({ color: 0xff0000 }))
FallbackSlots == [k \in 1..6 |-> [map |-> NoTex, color |-> "ff0000"]]

\* addMaterials: one MeshStandardMaterial({ map: textureMap.get(face) }) per face.
AddMaterials(m) == [k \in 1..6 |-> [map |-> MapGet(m, <<Faces[k]>>), color |-> "default"]]

\* ------------------------------------------------------------- model store
Absent == [kind |-> "absent", parent |-> <<>>, textures |-> <<>>,
           hasElements |-> FALSE, elements |-> <<>>]

Malformed == [kind |-> "malformed", parent |-> <<>>, textures |-> <<>>,
              hasElements |-> FALSE, elements |-> <<>>]

Model(parent, textures, hasElements, elements) ==
    [kind |-> "model", parent |-> parent, textures |-> textures,
     hasElements |-> hasElements, elements |-> elements]

\* path.join(cwd, "assets/minecraft/models/block", blockName + ".json")
BlockModelPath(blockName) == <<"block/">> \o blockName

Lookup(st, path) == IF path \in DOMAIN st THEN st[path] ELSE Absent

\* ------------------------------------------------------------- the assets used as inputs
Tex(name) == <<"block/", name>>

Ref(var) == <<"#", var>>

StoneDef == Model(<<NS, "block/", "cube_all">>, << <<"all", <<NS, "block/", "stone">> >> >>, FALSE, <<>>)

CubeAllDef ==
    Model(<<"block/", "cube">>,
          << <<"particle", Ref("all")>>, <<"down", Ref("all")>>, <<"up", Ref("all")>>,
             <<"north", Ref("all")>>, <<"east", Ref("all")>>, <<"south", Ref("all")>>,
             <<"west", Ref("all")>> >>,
          FALSE, <<>>)

CubeFaces ==
    [faces |-> << <<"down", Ref("down")>>, <<"up", Ref("up")>>, <<"north", Ref("north")>>,
                  <<"south", Ref("south")>>, <<"west", Ref("west")>>, <<"east", Ref("east")>> >>]

CubeDef == Model(<<"block/", "block">>, <<>>, TRUE, <<CubeFaces>>)

BlockDef == Model(<<>>, <<>>, FALSE, <<>>)

SixTextures ==
    << <<"a", Tex("ta")>>, <<"b", Tex("tb")>>, <<"c", Tex("tc")>>,
       <<"d", Tex("td")>>, <<"e", Tex("te")>>, <<"f", Tex("tf")>> >>

SixFaces ==
    [faces |-> << <<"east", Ref("a")>>, <<"west", Ref("b")>>, <<"up", Ref("c")>>,
                  <<"down", Ref("d")>>, <<"north", Ref("e")>>, <<"south", Ref("f")>> >>]

StonePath == <<"block/", "stone">>
CubeAllPath == <<"block/", "cube_all">>
CubePath == <<"block/", "cube">>
BlockPath == <<"block/", "block">>
SixPath == <<"block/", "six">>
LoopPath == <<"block/", "loop">>
MidPath == <<"block/", "mid">>

RealStore ==
    (StonePath :> StoneDef) @@ (CubeAllPath :> CubeAllDef) @@ (CubePath :> CubeDef)
        @@ (BlockPath :> BlockDef)

EmptyStore == [p \in {} |-> Absent]

\* Scenario C of the specification: the parent has elements and no further parent.
ScenarioCStore ==
    (StonePath :> Model(SixPath, SixTextures, FALSE, <<>>))
        @@ (SixPath :> Model(<<>>, <<>>, TRUE, <<SixFaces>>))

\* The block declares six textures; its parent has the elements and a parent of its own.
SixChainStore ==
    (StonePath :> Model(SixPath, SixTextures, FALSE, <<>>))
        @@ (SixPath :> Model(BlockPath, <<>>, TRUE, <<SixFaces>>))
        @@ (BlockPath :> BlockDef)

\* The block's own definition has the elements, and no parent.
OwnElementsStore == StonePath :> Model(<<>>, SixTextures, TRUE, <<SixFaces>>)

\* The block's own definition has the elements, and a parent.
OwnElementsParentStore ==
    (StonePath :> Model(BlockPath, SixTextures, TRUE, <<SixFaces>>))
        @@ (BlockPath :> BlockDef)

\* The block declares a variable as an indirection to another of its own variables.
OwnIndirectionStore ==
    (StonePath :> Model(SixPath,
                        << <<"all", Tex("stone")>>, <<"a", Ref("all")>>, <<"b", Tex("tb")>>,
                           <<"c", Tex("tc")>>, <<"d", Tex("td")>>, <<"e", Tex("te")>>,
                           <<"f", Tex("tf")>> >>,
                        FALSE, <<>>))
        @@ (SixPath :> Model(BlockPath, <<>>, TRUE, <<SixFaces>>))
        @@ (BlockPath :> BlockDef)

\* An ancestor declares a variable as an indirection to a variable it declares later,
\* which is two hops away from the texture.
LateDeclarationStore ==
    (StonePath :> Model(MidPath, << <<"all", Tex("stone")>> >>, FALSE, <<>>))
        @@ (MidPath :> Model(SixPath,
                             << <<"a", Ref("b")>>, <<"b", Ref("all")>>, <<"c", Ref("all")>>,
                                <<"d", Ref("all")>>, <<"e", Ref("all")>>, <<"f", Ref("all")>> >>,
                             FALSE, <<>>))
        @@ (SixPath :> Model(BlockPath, <<>>, TRUE, <<SixFaces>>))
        @@ (BlockPath :> BlockDef)

\* An ancestor declares a variable that the block has already bound to a texture.
RedeclarationStore ==
    (StonePath :> Model(MidPath, SixTextures, FALSE, <<>>))
        @@ (MidPath :> Model(SixPath, << <<"a", Ref("b")>> >>, FALSE, <<>>))
        @@ (SixPath :> Model(BlockPath, <<>>, TRUE, <<SixFaces>>))
        @@ (BlockPath :> BlockDef)

Stores ==
    { RealStore,
      RedeclarationStore,
      OwnIndirectionStore,
      LateDeclarationStore,
      EmptyStore,
      (StonePath :> Malformed),
      (StonePath :> StoneDef),
      (StonePath :> StoneDef) @@ (CubeAllPath :> Malformed),
      ScenarioCStore,
      SixChainStore,
      (StonePath :> Model(StonePath, SixTextures, FALSE, <<>>)),
      (StonePath :> Model(LoopPath, SixTextures, FALSE, <<>>))
          @@ (LoopPath :> Model(<<NS, "block/", "stone">>, <<>>, FALSE, <<>>)),
      (StonePath :> Model(CubePath, SixTextures, FALSE, <<>>))
          @@ (CubePath :> Model(BlockPath, <<>>, TRUE, <<>>)),
      OwnElementsStore,
      OwnElementsParentStore,
      (StonePath :> Model(<<>>, SixTextures, FALSE, <<>>)) }

BasicStores == {RealStore, EmptyStore}

AllTextures == {Tex(n) : n \in {"stone", "ta", "tb", "tc", "td", "te", "tf"}}

TextureSets == {AllTextures} \cup {AllTextures \ {t} : t \in AllTextures} \cup {{}}

\* ------------------------------------------------------------- the decoded tag tree
Num(n) == [type |-> "number", val |-> n, finite |-> TRUE]
Str == [type |-> "string", val |-> 0, finite |-> FALSE]
\* NaN or Infinity, as a float or double tag can hold. The model keeps 0 for it and the
\* inputs give such a size no cells, so that no position is computed from it.
NaN == [type |-> "number", val |-> 0, finite |-> FALSE]

Entry(name) == [hasName |-> TRUE, name |-> name]
NoNameEntry == [hasName |-> FALSE, name |-> <<>>]

Air == Entry(AirName)
Stone == Entry(<<NS, "stone">>)
BareStone == Entry(<<"stone">>)
Dirt == Entry(<<NS, "dirt">>)

Palettes ==
    { <<>>, <<Stone>>, <<Air, Stone>>, <<Stone, Dirt>>, <<Air, Air>>,
      <<NoNameEntry, Stone>>, <<Stone, BareStone>> }

\* Negative, -1, in range and out of range for the palettes above.
CellValues == {0 - 2, 0 - 1, 0, 1, 2}

Dims == 1..MaxDim

ShortGrids == UNION {[1..n -> CellValues] : n \in 0..MaxLen}

\* Grids of exactly width*height*depth cells, all cells holding the same value.
FullGrids(w, h, d) == {[k \in 1..(w * h * d) |-> v] : v \in CellValues}

ArraySize(elems) == [isArray |-> TRUE, elems |-> elems]
NoSize == [isArray |-> FALSE, elems |-> <<>>]

Tree(readable, hasStructure, size, indicesOk, cells, paletteKind, entries) ==
    [readable |-> readable, hasStructure |-> hasStructure, size |-> size,
     indices |-> [isArray |-> indicesOk, cells |-> cells],
     palette |-> [kind |-> paletteKind, entries |-> entries]]

WellFormedTree(w, h, d, g, p) ==
    Tree(TRUE, TRUE, ArraySize(<<Num(w), Num(h), Num(d)>>), TRUE, g, "array", p)

OneOne == ArraySize(<<Num(1), Num(1), Num(1)>>)

ResolverTrees ==
    { Tree(TRUE, TRUE, OneOne, TRUE, g, k, <<Stone, Dirt>>) :
        g \in {<<0>>, <<0, 0>>, <<0, 1>>, <<1, 0>>}, k \in {"array", "wrapped"} }

BrokenTrees ==
    { Tree(FALSE, TRUE, OneOne, TRUE, <<0>>, "array", <<Stone>>),
      Tree(TRUE, FALSE, OneOne, TRUE, <<0>>, "array", <<Stone>>),
      Tree(TRUE, TRUE, NoSize, TRUE, <<0>>, "array", <<Stone>>),
      Tree(TRUE, TRUE, ArraySize(<<Num(1), Num(1)>>), TRUE, <<0>>, "array", <<Stone>>),
      Tree(TRUE, TRUE, ArraySize(<<Num(1), Str, Num(1)>>), TRUE, <<0>>, "array", <<Stone>>),
      Tree(TRUE, TRUE, ArraySize(<<Num(1), NaN, Num(1)>>), TRUE, <<>>, "array", <<Stone>>),
      Tree(TRUE, TRUE, OneOne, FALSE, <<>>, "array", <<Stone>>),
      Tree(TRUE, TRUE, OneOne, TRUE, <<0>>, "missing", <<>>),
      Tree(TRUE, TRUE, OneOne, TRUE, <<0>>, "object", <<>>) }

\* The inputs of a run: the decoded file, the model store and the texture files present.
Input(t, s, f, e) == [tree |-> t, store |-> s, textureFiles |-> f, outDirExists |-> e]

\* ------------------------------------------------------------- state
VARIABLES
    input,          \* the decoded file, the model store, the texture files (read only)
    pc,             \* where the action handler of the run is
    error,          \* what the catch block of the handler was given, "none" before
    outcome,        \* the promise of the handler: "running", "resolved" or "rejected"
    firstId,        \* 0 in the first run of the handler, in a later run the value nextId
                    \* had when the run began (not a variable of the code)
    outDirMade,     \* fs.mkdirSync(outputDir) was called
    outputWritten,  \* fs.writeFileSync(output, glbBuffer) was called
    dims,           \* <<width, height, depth>>
    blockIndices,   \* the first layer of block_indices
    palette,        \* block_palette
    i,              \* the index of the for loop of processBlocks
    scene,          \* the meshes added to the THREE.Scene, in order
    addedBlocks,    \* the counter of processBlocks
    skipped,        \* cells left by a continue (not a variable of the code)
    visited,        \* the indices the loop has taken, in order (not a variable of the code)
    materialCache,  \* the module-level Map of getMaterials
    nextId,         \* the identity of the next materials array that is created
    runs,           \* how often getBlockMaterial was called, per key (not in the code)
    rpc,            \* where the running getBlockMaterial is
    rBlock,         \* its argument
    modelData,      \* its locals
    parentData,
    parent,
    textureMap,
    rResult,        \* the slots it returned
    steps,          \* parent files loaded by its while loop, saturating at MaxSteps
    callers         \* concurrent callers of getMaterials (used by ConcSpec only)

vars == <<input, firstId, pc, error, outcome, outDirMade, outputWritten, dims, blockIndices, palette, i,
          scene, addedBlocks, skipped, visited, materialCache, nextId, runs, rpc,
          rBlock, modelData, parentData, parent, textureMap, rResult, steps, callers>>

runVars == <<pc, error, outcome, outDirMade, outputWritten, dims, blockIndices, palette>>
loopVars == <<i, scene, addedBlocks, skipped, visited>>
cacheVars == <<materialCache, nextId, runs>>
resolverVars == <<rpc, rBlock, modelData, parentData, parent, textureMap, rResult, steps>>

EmptyCache == [k \in {} |-> 0]

InitCommon ==
    /\ pc = "start"
    /\ error = "none"
    /\ outcome = "running"
    /\ firstId = 0
    /\ outDirMade = FALSE
    /\ outputWritten = FALSE
    /\ dims = <<>>
    /\ blockIndices = <<>>
    /\ palette = <<>>
    /\ i = 0
    /\ scene = <<>>
    /\ addedBlocks = 0
    /\ skipped = 0
    /\ visited = <<>>
    /\ materialCache = EmptyCache
    /\ nextId = 1
    /\ runs = EmptyCache
    /\ rpc = "idle"
    /\ rBlock = <<>>
    /\ modelData = Absent
    /\ parentData = Absent
    /\ parent = <<>>
    /\ textureMap = EmptyMap
    /\ rResult = <<>>
    /\ steps = 0

Init ==
    /\ \/ \E w \in Dims, h \in Dims, d \in Dims, p \in Palettes, s \in BasicStores :
            \E g \in ShortGrids \cup FullGrids(w, h, d) :
                input = Input(WellFormedTree(w, h, d, g, p), s, AllTextures, FALSE)
       \/ \E t \in BrokenTrees, s \in BasicStores, e \in BOOLEAN :
            input = Input(t, s, AllTextures, e)
       \/ \E t \in ResolverTrees, s \in Stores, f \in TextureSets :
            input = Input(t, s, f, TRUE)
    /\ callers = <<>>
    /\ InitCommon

\* ------------------------------------------------------------- the action handler
\* Array.isArray(size) && size.length === 3 && every element is a number
SizeOk(size) ==
    /\ size.isArray
    /\ Len(size.elems) = 3
    /\ \A k \in 1..Len(size.elems) : size.elems[k].type = "number"

\* A faulty variant: the check of block_indices is left out.
IndicesOkAlways(indices) == TRUE

\* Array.isArray(blockIndices)
IndicesOk(indices) == indices.isArray

\* Array.isArray(palette), after palette = palette.value for a wrapped list
PaletteOk(pal) == pal.kind \in {"array", "wrapped"}

\* Lines 105-107: the catch block logs the error and the handler returns normally.
Fail(kind) ==
    /\ pc' = "failed"
    /\ error' = kind
    /\ outcome' = "resolved"

\* Lines 26-83: read, parse, create the output directory if it is not there, extract
\* size, indices, palette.
Decode ==
    /\ pc = "start"
    /\ LET t == input.tree IN
       IF ~t.readable
       THEN Fail("read") /\ UNCHANGED <<outDirMade, dims, blockIndices, palette>>
       ELSE IF ~t.hasStructure
       THEN Fail("format") /\ UNCHANGED <<outDirMade, dims, blockIndices, palette>>
       ELSE /\ outDirMade' = ~input.outDirExists
            /\ IF ~SizeOk(t.size)
               THEN Fail("format") /\ UNCHANGED <<dims, blockIndices, palette>>
               ELSE IF ~IndicesOk(t.indices)
               THEN Fail("format") /\ UNCHANGED <<dims, blockIndices, palette>>
               ELSE IF ~PaletteOk(t.palette)
               THEN Fail("format") /\ UNCHANGED <<dims, blockIndices, palette>>
               ELSE /\ pc' = "process"
                    /\ error' = error
                    /\ outcome' = outcome
                    /\ dims' = [k \in 1..3 |-> t.size.elems[k].val]
                    /\ blockIndices' = t.indices.cells
                    /\ palette' = t.palette.entries
    /\ UNCHANGED <<input, firstId, outputWritten, callers>>
    /\ UNCHANGED loopVars
    /\ UNCHANGED cacheVars
    /\ UNCHANGED resolverVars

\* ------------------------------------------------------------- processBlocks
\* palette.findIndex(block => block.name?.value === "minecraft:air"), 0-based, -1 if none
AirIndex(pal) ==
    IF \E k \in 1..Len(pal) : pal[k].hasName /\ pal[k].name = AirName
    THEN (CHOOSE k \in 1..Len(pal) :
            /\ pal[k].hasName /\ pal[k].name = AirName
            /\ \A j \in 1..(k - 1) : ~(pal[j].hasName /\ pal[j].name = AirName)) - 1
    ELSE 0 - 1

\* blockIndex === airIndex || blockIndex >= palette.length || blockIndex === -1
EmptyCell(pal, blockIndex) ==
    \/ blockIndex = AirIndex(pal)
    \/ blockIndex >= Len(pal)
    \/ blockIndex = 0 - 1

\* !blockData || !blockData.name, with blockData = palette[blockIndex]
NoBlockData(pal, blockIndex) ==
    IF blockIndex < 0 \/ blockIndex >= Len(pal)
    THEN TRUE
    ELSE ~pal[blockIndex + 1].hasName

\* A faulty variant: only the air index is skipped.
SkipsCellAirOnly(pal, blockIndex) == blockIndex = AirIndex(pal)

\* The two continue statements at the top of the loop body.
SkipsCell(pal, blockIndex) == EmptyCell(pal, blockIndex) \/ NoBlockData(pal, blockIndex)

\* A faulty variant: width and height exchanged.
PositionSwapped(idx, w, h, d) == <<(idx \div (d * w)) % h, (idx \div d) % w, idx % d>>

\* x = floor(i / (depth * height)) % width, y = floor(i / depth) % height, z = i % depth
Position(idx, w, h, d) == <<(idx \div (d * h)) % w, (idx \div d) % h, idx % d>>

\* A faulty variant: every second index is left out.
NextIndexSkipping(k) == k + 2

\* The for loop over blockIndices.entries() takes the indices one by one.
NextIndex(k) == k + 1

\* blockName.replace("minecraft:", "") of getMaterials
CacheKey(blockName) == Replace(blockName)

Inc(f, key) == [x \in DOMAIN f \cup {key} |-> IF x \in DOMAIN f
                                               THEN (IF x = key THEN f[x] + 1 ELSE f[x])
                                               ELSE 1]

CacheSet(cache, key, materials) ==
    [x \in DOMAIN cache \cup {key} |-> IF x = key THEN materials ELSE cache[x]]

NewMesh(idx, materials) ==
    [index |-> idx,
     position |-> Position(idx, dims[1], dims[2], dims[3]),
     material |-> materials]

\* A faulty variant: the loop does not wait for getMaterials and goes on to the next
\* cell while a resolution is pending.
InLoopNotAwaiting == pc \in {"process", "resolving"} /\ i < Len(blockIndices)

\* The for loop of processBlocks is at a cell; it is not while the await of line 149
\* is pending.
InLoop == pc = "process" /\ i < Len(blockIndices)

Cell == blockIndices[i + 1]

Advance ==
    /\ i' = NextIndex(i)
    /\ visited' = Append(visited, i)

\* new THREE.Mesh, mesh.position.set, scene.add, addedBlocks++
Place(materials) ==
    /\ scene' = Append(scene, NewMesh(i, materials))
    /\ addedBlocks' = addedBlocks + 1
    /\ skipped' = skipped
    /\ Advance

\* Lines 137-146: the cell is left by one of the two continue statements.
SkipCell ==
    /\ InLoop
    /\ SkipsCell(palette, Cell)
    /\ skipped' = skipped + 1
    /\ Advance
    /\ UNCHANGED <<input, firstId, scene, addedBlocks, callers>>
    /\ UNCHANGED runVars
    /\ UNCHANGED cacheVars
    /\ UNCHANGED resolverVars

\* Lines 145-149 and 112-117: the cell is not skipped; getMaterials answers from the
\* cache, or calls getBlockMaterial and waits for it.
CallGetMaterials ==
    /\ InLoop
    /\ ~SkipsCell(palette, Cell)
    /\ IF NoBlockData(palette, Cell)
       THEN \* blockData.name of an undefined blockData: a TypeError
            /\ Fail("type")
            /\ UNCHANGED loopVars
            /\ UNCHANGED cacheVars
            /\ UNCHANGED resolverVars
       ELSE LET key == CacheKey(palette[Cell + 1].name) IN
            IF key \in DOMAIN materialCache
            THEN /\ Place(materialCache[key])
                 /\ UNCHANGED <<pc, error, outcome>>
                 /\ UNCHANGED cacheVars
                 /\ UNCHANGED resolverVars
            ELSE /\ pc' = "resolving"
                 /\ rpc' = "open"
                 /\ rBlock' = key
                 /\ runs' = Inc(runs, key)
                 /\ steps' = 0
                 /\ UNCHANGED <<error, outcome, materialCache, nextId, modelData, parentData,
                                parent, textureMap, rResult>>
                 /\ UNCHANGED loopVars
    /\ UNCHANGED <<input, firstId, outDirMade, outputWritten, dims, blockIndices, palette, callers>>

\* Lines 117-120 and 155-164: getBlockMaterial returned; the result is cached and the
\* mesh is placed with what the cache holds. getMaterials always returns an array, so
\* the !material branch of lines 150-153 is never taken.
MaterialResolved ==
    /\ pc = "resolving"
    /\ rpc = "returned"
    /\ LET key == CacheKey(palette[Cell + 1].name)
           cache == CacheSet(materialCache, key, [id |-> nextId, slots |-> rResult])
       IN /\ materialCache' = cache
          /\ Place(cache[key])
    /\ nextId' = nextId + 1
    /\ pc' = "process"
    /\ rpc' = "idle"
    /\ UNCHANGED <<input, firstId, error, outcome, outDirMade, outputWritten, dims,
                   blockIndices, palette, runs, rBlock, modelData, parentData, parent, textureMap, rResult,
                   steps, callers>>

\* An exception of getBlockMaterial goes through getMaterials and processBlocks to the
\* catch block of the handler (line 105).
ResolveRaised ==
    /\ pc = "resolving"
    /\ rpc = "raised"
    /\ Fail("resolution")
    /\ rpc' = "idle"
    /\ UNCHANGED <<input, firstId, outDirMade, outputWritten, dims, blockIndices, palette,
                   rBlock, modelData, parentData, parent, textureMap, rResult, steps,
                   callers>>
    /\ UNCHANGED loopVars
    /\ UNCHANGED cacheVars

\* Line 167: the loop is over, processBlocks returns.
FinishBlocks ==
    /\ pc = "process"
    /\ i >= Len(blockIndices)
    /\ pc' = "export"
    /\ UNCHANGED <<input, firstId, error, outcome, outDirMade, outputWritten, dims,
                   blockIndices, palette, callers>>
    /\ UNCHANGED loopVars
    /\ UNCHANGED cacheVars
    /\ UNCHANGED resolverVars

\* Lines 97-104: the exporter encodes the scene and the buffer is written; either call
\* can throw.
Export ==
    /\ pc = "export"
    /\ \E result \in {"ok", "encode", "write"} :
         IF result = "ok"
         THEN /\ outputWritten' = TRUE
              /\ pc' = "done"
              /\ error' = error
              /\ outcome' = "resolved"
         ELSE /\ Fail("export")
              /\ outputWritten' = outputWritten
    /\ UNCHANGED <<input, firstId, outDirMade, dims, blockIndices, palette, callers>>
    /\ UNCHANGED loopVars
    /\ UNCHANGED cacheVars
    /\ UNCHANGED resolverVars

\* ------------------------------------------------------------- getBlockMaterial
RECURSIVE LoadAllStopping(_, _, _)
\* A faulty variant: the first missing image file ends the loading.
LoadAllStopping(entries, m, files) ==
    IF entries = <<>> THEN m
    ELSE LET key == entries[1][1]
             cleanTexture == Replace(entries[1][2])
         IN IF cleanTexture \in files
            THEN LoadAllStopping(Tail(entries), MapSet(m, key, cleanTexture), files)
            ELSE m

RECURSIVE LoadAll(_, _, _)
\* Lines 233-256: every declared variable whose image file exists is loaded.
LoadAll(entries, m, files) ==
    IF entries = <<>> THEN m
    ELSE LET key == entries[1][1]
             cleanTexture == Replace(entries[1][2])
         IN LoadAll(Tail(entries),
                    IF cleanTexture \in files THEN MapSet(m, key, cleanTexture) ELSE m,
                    files)

\* textureMap.set(key, textureMap.get(reference.slice(1)))
Rebind(m, key, ref) == MapSet(m, key, MapGet(m, Slice1(ref)))

RECURSIVE RebindAll(_, _)
\* Lines 264-270 (the faces of elements[0]) and 284-290 (the textures of a parent).
RebindAll(entries, m) ==
    IF entries = <<>> THEN m
    ELSE RebindAll(Tail(entries), Rebind(m, entries[1][1], entries[1][2]))

Resolving(at) == pc = "resolving" /\ rpc = at

ResolverFrame == <<input, firstId, error, outcome, outDirMade, outputWritten, dims, blockIndices, palette,
                   callers, pc, rBlock>>

\* Lines 190-207: the model file of the block is looked up and parsed.
ResolverOpen ==
    /\ Resolving("open")
    /\ LET file == Lookup(input.store, BlockModelPath(Replace(rBlock))) IN
         CASE file.kind = "absent" ->
                /\ rpc' = "returned"
                /\ rResult' = FallbackSlots
                /\ UNCHANGED <<modelData, textureMap>>
           [] file.kind = "malformed" ->
                \* JSON.parse throws
                /\ rpc' = "raised"
                /\ UNCHANGED <<modelData, textureMap, rResult>>
           [] OTHER ->
                /\ rpc' = "textures"
                /\ modelData' = file
                /\ textureMap' = EmptyMap
                /\ rResult' = rResult
    /\ UNCHANGED <<parentData, parent, steps>>
    /\ UNCHANGED ResolverFrame
    /\ UNCHANGED loopVars
    /\ UNCHANGED cacheVars

\* Lines 233-260: the textures of the block's own definition, then parent and parentData.
LoadTextures ==
    /\ Resolving("textures")
    /\ textureMap' = LoadAll(modelData.textures, textureMap, input.textureFiles)
    /\ parent' = Replace(modelData.parent)
    /\ parentData' = modelData
    /\ rpc' = "chain"
    /\ UNCHANGED <<modelData, rResult, steps>>
    /\ UNCHANGED ResolverFrame
    /\ UNCHANGED loopVars
    /\ UNCHANGED cacheVars

\* while (parent): an undefined or empty parent ends the loop.
ChainContinues(p) == p # <<>>

\* Lines 262-273 and 296-298: parentData has elements; the faces of the first element
\* are bound, the loop is left and the materials are built.
ChainElements ==
    /\ Resolving("chain")
    /\ ChainContinues(parent)
    /\ parentData.hasElements
    /\ IF parentData.elements = <<>>
       THEN \* elements[0] is undefined: a TypeError
            /\ rpc' = "raised"
            /\ UNCHANGED <<textureMap, rResult>>
       ELSE LET m == RebindAll(parentData.elements[1].faces, textureMap) IN
            /\ textureMap' = m
            /\ rResult' = AddMaterials(m)
            /\ rpc' = "returned"
    /\ UNCHANGED <<modelData, parentData, parent, steps>>
    /\ UNCHANGED ResolverFrame
    /\ UNCHANGED loopVars
    /\ UNCHANGED cacheVars

\* Lines 274-293: parentData has no elements; the parent file is read and parsed, its
\* textures are bound and its parent is the next one.
ChainLoadParent ==
    /\ Resolving("chain")
    /\ ChainContinues(parent)
    /\ ~parentData.hasElements
    /\ LET file == Lookup(input.store, parent) IN
         IF file.kind # "model"
         THEN \* fs.readFileSync or JSON.parse throws
              /\ rpc' = "raised"
              /\ UNCHANGED <<parentData, parent, textureMap, steps>>
         ELSE /\ parentData' = file
              /\ textureMap' = RebindAll(file.textures, textureMap)
              /\ parent' = Replace(file.parent)
              /\ steps' = IF steps < MaxSteps THEN steps + 1 ELSE steps
              /\ rpc' = rpc
    /\ UNCHANGED <<modelData, rResult>>
    /\ UNCHANGED ResolverFrame
    /\ UNCHANGED loopVars
    /\ UNCHANGED cacheVars

\* Lines 262 and 296-298: no parent is left; the materials are built.
ChainEnd ==
    /\ Resolving("chain")
    /\ ~ChainContinues(parent)
    /\ rResult' = AddMaterials(textureMap)
    /\ rpc' = "returned"
    /\ UNCHANGED <<modelData, parentData, parent, textureMap, steps>>
    /\ UNCHANGED ResolverFrame
    /\ UNCHANGED loopVars
    /\ UNCHANGED cacheVars

Next ==
    \/ Decode
    \/ SkipCell
    \/ CallGetMaterials
    \/ ResolverOpen
    \/ LoadTextures
    \/ ChainElements
    \/ ChainLoadParent
    \/ ChainEnd
    \/ MaterialResolved
    \/ ResolveRaised
    \/ FinishBlocks
    \/ Export

Spec == Init /\ [][Next]_vars

\* ------------------------------------------------------------- a second run in the same process
\* The handler is invoked again after a run has ended (the program parsed a second time
\* by an embedding script): the locals of the handler, of processBlocks and of
\* getBlockMaterial are new, the module-level materialCache of line 110 is the same Map.
\* The output directory is there if it was or if the first run made it. The model stops
\* at two runs.
Reinvoke ==
    /\ pc \in {"done", "failed"}
    /\ firstId = 0
    /\ firstId' = nextId
    /\ input' = [input EXCEPT !.outDirExists = input.outDirExists \/ outDirMade]
    /\ pc' = "start"
    /\ error' = "none"
    /\ outcome' = "running"
    /\ outDirMade' = FALSE
    /\ outputWritten' = FALSE
    /\ dims' = <<>>
    /\ blockIndices' = <<>>
    /\ palette' = <<>>
    /\ i' = 0
    /\ scene' = <<>>
    /\ addedBlocks' = 0
    /\ skipped' = 0
    /\ visited' = <<>>
    /\ rpc' = "idle"
    /\ rBlock' = <<>>
    /\ modelData' = Absent
    /\ parentData' = Absent
    /\ parent' = <<>>
    /\ textureMap' = EmptyMap
    /\ rResult' = <<>>
    /\ steps' = 0
    /\ UNCHANGED <<materialCache, nextId, runs, callers>>

TwoRunNext ==
    \/ Next
    \/ Reinvoke

TwoRunSpec == Init /\ [][TwoRunNext]_vars

\* ------------------------------------------------------------- concurrent callers of getMaterials
\* getMaterials is an async function: a caller that misses the cache is suspended at
\* the await of line 117 and resumed when getBlockMaterial has returned; other callers
\* run in between. The store is empty here, so getBlockMaterial returns a new array of
\* fallback materials (lines 200-205) on every call.
Callers == 1..NCallers

BlockNames == {<<NS, "stone">>, <<"stone">>, <<NS, "dirt">>}

Caller(at, name, result) == [pc |-> at, name |-> name, result |-> result]

ConcInit ==
    /\ input = Input(Tree(TRUE, TRUE, OneOne, TRUE, <<>>, "array", <<>>), EmptyStore, {}, TRUE)
    /\ callers = [c \in Callers |-> Caller("idle", <<>>, 0)]
    /\ InitCommon

\* Lines 112-117 and 120: the cache answers, or getBlockMaterial is called and awaited.
ConcCall(c, blockName) ==
    /\ callers[c].pc \in {"idle", "returned"}
    /\ LET key == CacheKey(blockName) IN
         IF key \in DOMAIN materialCache
         THEN /\ callers' = [callers EXCEPT ![c] =
                                Caller("returned", blockName, materialCache[key].id)]
              /\ runs' = runs
         ELSE /\ callers' = [callers EXCEPT ![c] = Caller("awaiting", blockName, 0)]
              /\ runs' = Inc(runs, key)
    /\ UNCHANGED <<input, firstId, materialCache, nextId>>
    /\ UNCHANGED runVars
    /\ UNCHANGED loopVars
    /\ UNCHANGED resolverVars

\* Lines 117-120: the awaited getBlockMaterial has returned; its array is stored and
\* the caller returns what the cache holds now.
ConcResolved(c) ==
    /\ callers[c].pc = "awaiting"
    /\ LET key == CacheKey(callers[c].name)
           cache == CacheSet(materialCache, key, [id |-> nextId, slots |-> FallbackSlots])
       IN /\ materialCache' = cache
          /\ callers' = [callers EXCEPT ![c] = Caller("returned", callers[c].name, cache[key].id)]
    /\ nextId' = nextId + 1
    /\ UNCHANGED <<input, firstId, runs>>
    /\ UNCHANGED runVars
    /\ UNCHANGED loopVars
    /\ UNCHANGED resolverVars

ConcNext ==
    \/ \E c \in Callers, blockName \in BlockNames : ConcCall(c, blockName)
    \/ \E c \in Callers : ConcResolved(c)

ConcSpec == ConcInit /\ [][ConcNext]_vars

\* ------------------------------------------------------------- claims
Volume == dims[1] * dims[2] * dims[3]

Decoded == pc \in {"process", "resolving", "export", "done"} \/ (pc = "failed" /\ error \in {"type", "resolution", "export"})

\* processBlocks has returned.
LoopEnded == pc \in {"export", "done"} \/ (pc = "failed" /\ error = "export")

\* C1: for every key of the cache, getBlockMaterial is called at most once, however many
\* callers of getMaterials ask for it, one after the other or at the same time.
C1_SingleFlight == \A key \in DOMAIN runs : runs[key] <= 1

\* C2: all calls of getMaterials for one block name that have returned, returned the
\* same materials array.
C2_SameResultObject ==
    \A c \in DOMAIN callers, d \in DOMAIN callers :
        (/\ callers[c].pc = "returned"
         /\ callers[d].pc = "returned"
         /\ callers[c].name = callers[d].name)
        => callers[c].result = callers[d].result

\* C3: with a grid of width*height*depth cells, every mesh lies inside the lattice and
\* z + y*depth + x*depth*height of its position is the flat index it was placed for
\* (inside the lattice that decomposition is unique, so the position is the one of
\* x = floor(i / (D*H)) mod W, y = floor(i / D) mod H, z = i mod D).
C3_CoordinateInvertible ==
    (Decoded /\ Len(blockIndices) = Volume) =>
        \A k \in 1..Len(scene) :
            LET x == scene[k].position[1]
                y == scene[k].position[2]
                z == scene[k].position[3]
            IN /\ x \in 0..(dims[1] - 1)
               /\ y \in 0..(dims[2] - 1)
               /\ z \in 0..(dims[3] - 1)
               /\ z + y * dims[3] + x * dims[3] * dims[2] = scene[k].index

C3_Witness ==
    /\ pc = "done"
    /\ Len(blockIndices) = Volume
    /\ dims = <<2, 2, 2>>
    /\ Len(scene) = Volume
    /\ scene[Len(scene)].position = <<1, 1, 1>>

\* C4: when processBlocks has returned, no two meshes of the scene have the same
\* position, for every input the decoder accepted.
C4_NoRepeatedPosition ==
    LoopEnded =>
        \A j \in 1..Len(scene), k \in 1..Len(scene) :
            j # k => scene[j].position # scene[k].position

\* C5: the loop takes the indices 0, 1, 2, ... one by one, every cell taken is either
\* placed or skipped, and with a grid of width*height*depth cells
\* placed + skipped = width*height*depth when the loop has ended.
C5_CellAccounting ==
    /\ Decoded =>
          /\ visited = [k \in 1..Len(visited) |-> k - 1]
          /\ Len(visited) = i
          /\ addedBlocks + skipped = i
          /\ addedBlocks = Len(scene)
    /\ (LoopEnded /\ Len(blockIndices) = Volume) => addedBlocks + skipped = Volume

C5_Witness ==
    /\ pc = "done"
    /\ Len(blockIndices) = Volume
    /\ addedBlocks = 1
    /\ skipped = 1

\* The palette has no air entry and every cell holds -1 or an out-of-range index.
OnlyEmptyCells ==
    /\ Decoded
    /\ AirIndex(palette) = 0 - 1
    /\ \A k \in 1..Len(blockIndices) :
          blockIndices[k] = 0 - 1 \/ blockIndices[k] >= Len(palette)

\* C6: a cell holding -1, the air index or a value >= palette.length is left without a
\* mesh and without an exception: the loop goes on with the next cell. And with a
\* palette without air and a grid of such cells only, processBlocks adds no mesh, calls
\* no resolver and never raises.
C6_EmptyCellsSkipped ==
    /\ [][ (/\ pc = "process"
            /\ i < Len(blockIndices)
            /\ \/ blockIndices[i + 1] = 0 - 1
               \/ blockIndices[i + 1] >= Len(palette)
               \/ blockIndices[i + 1] = AirIndex(palette))
           => (/\ pc' = "process"
               /\ i' = i + 1
               /\ scene' = scene
               /\ addedBlocks' = addedBlocks) ]_vars
    /\ [](OnlyEmptyCells =>
            /\ scene = <<>>
            /\ pc # "resolving"
            /\ error \notin {"type", "resolution"}
            /\ skipped = i)

\* A palette without air; a cell holding -1 and an out-of-range cell were both skipped.
C6_Witness ==
    /\ pc = "done"
    /\ palette = <<Stone>>
    /\ blockIndices = <<0 - 1, 1>>
    /\ scene = <<>>
    /\ skipped = 2

\* C7: no mesh of the scene was placed for a cell whose palette entry is named
\* "minecraft:air".
C7_NoAirMesh ==
    \A k \in 1..Len(scene) :
        palette[blockIndices[scene[k].index + 1] + 1].name # AirName

\* C8: getBlockMaterial never raises and returns 6 slots; no run ends in the catch block
\* because of a model definition.
C8_ResolverNeverRaises ==
    /\ rpc # "raised"
    /\ error # "resolution"
    /\ rpc = "returned" => Len(rResult) = 6

\* C9: the while loop of getBlockMaterial is bounded: it loads no more parent files than
\* the store holds. (The loop's next step depends on parent and parentData alone, so a
\* walk that loads more files than there are has loaded one twice and never ends.)
C9_ChainWalkBounded == steps <= Cardinality(DOMAIN input.store)

RECURSIVE Declared(_, _)
\* The value the entries declare for a key, <<>> if none.
Declared(entries, key) ==
    IF entries = <<>> THEN <<>>
    ELSE IF entries[Len(entries)][1] = key THEN entries[Len(entries)][2]
    ELSE Declared(SubSeq(entries, 1, Len(entries) - 1), key)

\* The texture that Scenario C expects in the slot of a face: the one the block declares
\* for the variable the parent's face refers to, if its image file is there.
ExpectedTexture(face) ==
    LET tex == Replace(Declared(SixTextures, Tail(Declared(SixFaces.faces, face))[1]))
    IN IF tex \in input.textureFiles THEN tex ELSE NoTex

\* C10: Scenario C, one image file missing: the slot of the face that refers to it has
\* no texture, the other five slots have their textures.
C10_ScenarioC ==
    (/\ rpc = "returned"
     /\ input.store = ScenarioCStore
     /\ rBlock = <<"stone">>
     /\ Cardinality({Tex(n) : n \in {"ta", "tb", "tc", "td", "te", "tf"}} \ input.textureFiles) = 1)
    => \A k \in 1..6 : rResult[k].map = ExpectedTexture(Faces[k])

\* The block being resolved has no model definition file.
ModelMissing == Lookup(input.store, BlockModelPath(Replace(rBlock))).kind = "absent"

\* C11: a block whose model definition file does not exist resolves, without raising,
\* to exactly six slots that all carry the fallback tint 0xff0000 and no texture.
C11_MissingModelFallback ==
    (pc = "resolving" /\ ModelMissing) =>
        /\ rpc \in {"open", "returned"}
        /\ error = "none"
        /\ rpc = "returned" =>
              /\ DOMAIN rResult = 1..6
              /\ \A k \in 1..6 : rResult[k] = [map |-> NoTex, color |-> "ff0000"]

C11_Witness ==
    /\ pc = "resolving"
    /\ rpc = "returned"
    /\ ModelMissing
    /\ rBlock = <<"dirt">>

RECURSIVE DefinitionChain(_, _, _)
\* The definition at a path followed by its ancestors, the nearest first.
DefinitionChain(st, path, fuel) ==
    LET file == Lookup(st, path) IN
    IF fuel = 0 \/ file.kind # "model" THEN <<>>
    ELSE <<file>> \o (IF Replace(file.parent) = <<>> THEN <<>>
                     ELSE DefinitionChain(st, Replace(file.parent), fuel - 1))

RECURSIVE ValueOf(_, _)
\* The value the variable table gives a variable: that of the nearest definition
\* declaring it, <<>> when none does.
ValueOf(defs, var) ==
    IF defs = <<>> THEN <<>>
    ELSE IF Declared(defs[1].textures, var) # <<>> THEN Declared(defs[1].textures, var)
    ELSE ValueOf(Tail(defs), var)

RECURSIVE Chase(_, _, _)
\* The texture at the end of the chain of indirections of a variable, NoTex at a
\* dead end (no declaration, no image file, or a chain that does not end).
Chase(defs, var, fuel) ==
    LET val == ValueOf(defs, var) IN
    IF val = <<>> \/ fuel = 0 THEN NoTex
    ELSE IF val[1] = "#" THEN Chase(defs, val[2], fuel - 1)
    ELSE IF Replace(val) \in input.textureFiles THEN Replace(val) ELSE NoTex

StoneChain == DefinitionChain(input.store, StonePath, MaxSteps)

\* C12: a variable declared as an indirection, in the block's own definition or in an
\* ancestor, through any number of hops and in any declaration order, is bound to the
\* texture at the end of its chain once the block is resolved.
C12_IndirectionsChased ==
    (/\ rpc = "returned"
     /\ rBlock = <<"stone">>
     /\ input.store \in {OwnIndirectionStore, LateDeclarationStore})
    => \A var \in {"all", "a", "b", "c", "d", "e", "f"} :
          MapGet(textureMap, <<var>>) = Chase(StoneChain, var, MaxSteps)

\* C13: merging the texture variables of a parent leaves every variable that is already
\* bound to a loaded texture as it is; only the other variables are filled.
C13_MergeKeepsResolved ==
    [][(/\ input.store = RedeclarationStore
        /\ rpc = "chain"
        /\ rpc' = "chain")
       => \A key \in DOMAIN textureMap :
             textureMap[key] # NoTex => textureMap'[key] = textureMap[key]]_vars

\* C14: the output file is written only when every cell has been processed and the
\* scene encoded, and a run that failed before has created nothing on the file system:
\* neither the output file nor its directory.
C14_AtomicOutput ==
    /\ outputWritten => (pc = "done" /\ i = Len(blockIndices))
    /\ pc = "failed" => (~outputWritten /\ ~outDirMade)

\* C15: a run that ended with a fatal error has written nothing to the output path and
\* reports failure to its caller: the promise of the handler is rejected (the process
\* would exit with a non-zero code).
C15_FatalErrorOutcome ==
    pc = "failed" => (~outputWritten /\ outcome = "rejected")

\* C16: a tree gets past the size check only if its size is a list of exactly three
\* numbers that are all finite, and these are then the width, height and depth in that
\* order; any other tree with a structure ends in a format error.
C16_SizeValidation ==
    LET size == input.tree.size
        Valid == /\ size.isArray
                 /\ Len(size.elems) = 3
                 /\ \A k \in 1..Len(size.elems) :
                        size.elems[k].type = "number" /\ size.elems[k].finite
    IN /\ Decoded => (Valid /\ \A k \in 1..3 : dims[k] = size.elems[k].val)
       /\ (pc # "start" /\ input.tree.readable /\ input.tree.hasStructure /\ ~Valid)
             => (pc = "failed" /\ error = "format")

\* C17: when block_indices is missing or not a list, or the palette is missing or not a
\* list, the run ends in a fatal error with no scene work done: no mesh placed, no
\* block resolved or cached, the exporter not invoked and nothing written.
C17_FormatErrorsFirst ==
    LET t == input.tree IN
    (~t.indices.isArray \/ t.palette.kind \notin {"array", "wrapped"}) =>
        /\ pc \in {"start", "failed"}
        /\ pc = "failed" => error \in {"read", "format"}
        /\ scene = <<>>
        /\ addedBlocks = 0
        /\ i = 0
        /\ runs = EmptyCache
        /\ materialCache = EmptyCache
        /\ rpc = "idle"
        /\ ~outputWritten

C17_Witness ==
    /\ pc = "failed"
    /\ error = "format"
    /\ input.tree.readable
    /\ input.tree.hasStructure
    /\ SizeOk(input.tree.size)
    /\ ~input.tree.indices.isArray
    /\ input.tree.palette.kind = "array"

\* The variables of the block's own definition whose image file is there.
LoadableVariables ==
    {modelData.textures[k][1] : k \in {n \in DOMAIN modelData.textures :
                                          Replace(modelData.textures[n][2]) \in input.textureFiles}}

\* C18: a missing image file leaves only its own variable unbound: when the textures of
\* the block have been gone through, every declared variable whose file is there holds
\* its texture; no set of missing files makes a resolution raise; and the run ends
\* exported, with a slot without texture for each face whose file is missing.
C18_MissingTextureNonFatal ==
    /\ (pc = "resolving" /\ rpc = "chain" /\ steps = 0) =>
          /\ DOMAIN textureMap = LoadableVariables
          /\ \A k \in DOMAIN modelData.textures :
                modelData.textures[k][1] \in LoadableVariables =>
                    textureMap[modelData.textures[k][1]] = Replace(modelData.textures[k][2])
    /\ input.store \in {RealStore, SixChainStore, EmptyStore} =>
          (rpc # "raised" /\ error # "resolution")
    /\ (pc = "done" /\ input.store = SixChainStore) =>
          \A n \in DOMAIN scene :
             blockIndices[scene[n].index + 1] = 0 =>
                \A k \in 1..6 : scene[n].material.slots[k].map = ExpectedTexture(Faces[k])

C18_Witness ==
    /\ pc = "done"
    /\ outputWritten
    /\ input.store = SixChainStore
    /\ input.textureFiles = AllTextures \ {Tex("ta")}
    /\ scene # <<>>
    /\ blockIndices[scene[1].index + 1] = 0
    /\ scene[1].material.slots[FaceSlot("east")].map = NoTex
    /\ scene[1].material.slots[FaceSlot("west")].map = Tex("tb")

\* C19: the material cache is new in every run: a run starts with an empty cache and
\* every mesh it places carries a materials array created during this run, never one
\* that an earlier run in the same process stored.
C19_RunIsolation ==
    /\ pc = "start" => materialCache = EmptyCache
    /\ \A n \in DOMAIN scene : scene[n].material.id >= firstId

\* C20: the walk stops at the first definition with elements, the block's own or an
\* ancestor's, and the faces of its first element give the six slots: each face mapped
\* to a variable with a loaded texture has that texture in its slot, also when the
\* definition with the elements is the block's own and has no parent.
C20_ElementsLookup ==
    (/\ rpc = "returned"
     /\ rBlock = <<"stone">>
     /\ input.store \in {OwnElementsStore, OwnElementsParentStore, SixChainStore})
    => /\ \A k \in 1..6 : rResult[k].map = ExpectedTexture(Faces[k])
       /\ input.store # SixChainStore => steps = 0

\* A resolution is in flight: getMaterials has called getBlockMaterial and the await of
\* processBlocks has not been resumed.
Pending == pc = "resolving"

\* How many calls of getBlockMaterial were made.
RECURSIVE Calls(_, _)
Calls(f, keys) ==
    IF keys = {} THEN 0
    ELSE LET key == CHOOSE x \in keys : TRUE IN f[key] + Calls(f, keys \ {key})

\* C21: processBlocks waits for each getMaterials call before it goes to the next cell.
\* While a resolution is pending the loop index, the scene and the cache stay as they
\* are and no second resolution starts; a resolution starts only when none is pending;
\* the step that ends it writes the cache entry of its own key only; at most one call
\* of getBlockMaterial has not yet been answered; and the meshes of the scene are in
\* strictly increasing order of flat index.
C21_SequentialResolution ==
    /\ [](\A m \in DOMAIN scene : \A n \in DOMAIN scene :
             m < n => scene[m].index < scene[n].index)
    /\ [](Calls(runs, DOMAIN runs) - Cardinality(DOMAIN materialCache)
             \in (IF Pending THEN {1} ELSE {0, 1}))
    /\ [](Pending => (rBlock \notin DOMAIN materialCache /\ \A n \in DOMAIN scene : scene[n].index < i))
    /\ [][(Pending /\ pc' = "resolving")
            => (i' = i /\ scene' = scene /\ visited' = visited
                /\ materialCache' = materialCache /\ runs' = runs /\ rBlock' = rBlock)]_vars
    /\ [][runs' # runs => (~Pending /\ pc' = "resolving")]_vars
    /\ [][materialCache' # materialCache
            => (/\ Pending
                /\ rpc = "returned"
                /\ pc' = "process"
                /\ DOMAIN materialCache' = DOMAIN materialCache \cup {rBlock}
                /\ \A key \in DOMAIN materialCache : materialCache'[key] = materialCache[key]
                /\ i' = i + 1
                /\ Len(scene') = Len(scene) + 1
                /\ scene'[Len(scene')].index = i)]_vars

C21_Witness ==
    /\ Pending
    /\ rpc = "chain"
    /\ Len(scene) = 1
    /\ scene[1].index = 0
    /\ i = 1
    /\ DOMAIN materialCache = {<<"dirt">>}
    /\ rBlock = <<"stone">>

====
